---- MODULE Spec2Model ----
(***************************************************************************)
(* A model of the knowledge-base scaffolder: scripts/knowledge.py (slug,   *)
(* ensure_tree, add_topic, the CLI), scripts/build_index.py (build_index)  *)
(* and scripts/study_agent.py (parse_yearly_journal, route, main).         *)
(*                                                                         *)
(* Texts are TLA+ strings handled character by character (Len, SubSeq and  *)
(* \o on strings), so that lower(), strip(), the regular expressions and   *)
(* the sort order are computed the way the Python code computes them.      *)
(* A filesystem path is a sequence of names.  Each part of the program is   *)
(* exercised by a specification of its own: SpecSlug, SpecRoute, SpecParse *)
(* (the pure functions on bounded inputs), SpecFS and SpecIndex (the       *)
(* commands on the filesystem) and SpecRun (a run of study_agent.py).      *)
(***************************************************************************)
EXTENDS Integers, Sequences, FiniteSets, TLC

VARIABLES
    \* knowledge.slug called on its own
    slugArg, slugRet, slugRet2, slugPc,
    \* study_agent.route called on its own
    routeArg, routeRet, routePc,
    \* study_agent.parse_yearly_journal: the journal file and the call
    journal, finalNewline, targetDate, parsed, parsePc,
    \* the filesystem and the knowledge.py / build_index.py commands
    disk, clock, ops, lastCmd,
    \* a run of study_agent.main
    pc, journalExists, data, done, calls, exitCode, reported

vars == << slugArg, slugRet, slugRet2, slugPc, routeArg, routeRet, routePc,
           journal, finalNewline, targetDate, parsed, parsePc,
           disk, clock, ops, lastCmd,
           pc, journalExists, data, done, calls, exitCode, reported >>

slugVars == << slugArg, slugRet, slugRet2, slugPc >>
routeVars == << routeArg, routeRet, routePc >>
parseVars == << journal, finalNewline, targetDate, parsed, parsePc >>
fsVars == << disk, clock, ops, lastCmd >>
runVars == << pc, journalExists, data, done, calls, exitCode, reported >>

-----------------------------------------------------------------------------
(* Bounds of the model                                                     *)

\* longest argument given to slug on its own
MaxSlugLen == 4
\* number of fragments a topic text given to route is built from
MaxFrags == 2
\* number of lines of a journal document
MaxLines == 4
\* number of knowledge.py / build_index.py commands in one behaviour
MaxOps == 3
\* number of days the clock may advance
MaxDays == 1

-----------------------------------------------------------------------------
(* Characters and strings, as Python's str methods treat them              *)

Ch(s, i) == SubSeq(s, i, i)

Rest(s) == SubSeq(s, 2, Len(s))

LowerLetters == "abcdefghijklmnopqrstuvwxyz"
UpperLetters == "ABCDEFGHIJKLMNOPQRSTUVWXYZ"
DigitChars == "0123456789"

\* position of character c in string s, 0 when absent
IndexIn(c, s) ==
    IF \E i \in 1..Len(s) : Ch(s, i) = c
    THEN CHOOSE i \in 1..Len(s) : Ch(s, i) = c
    ELSE 0

IsLower(c) == IndexIn(c, LowerLetters) > 0
IsUpper(c) == IndexIn(c, UpperLetters) > 0
IsDigit(c) == IndexIn(c, DigitChars) > 0
\* \s of the regular expressions and the characters str.strip() removes
IsSpace(c) == IndexIn(c, " \t") > 0

LowerCh(c) == IF IsUpper(c) THEN Ch(LowerLetters, IndexIn(c, UpperLetters)) ELSE c
UpperCh(c) == IF IsLower(c) THEN Ch(UpperLetters, IndexIn(c, LowerLetters)) ELSE c

RECURSIVE Lower(_)
Lower(s) == IF s = "" THEN "" ELSE LowerCh(Ch(s, 1)) \o Lower(Rest(s))

RECURSIVE Upper(_)
Upper(s) == IF s = "" THEN "" ELSE UpperCh(Ch(s, 1)) \o Upper(Rest(s))

\* str.capitalize(): first character uppercased, the others lowercased
Capitalize(s) == IF s = "" THEN "" ELSE UpperCh(Ch(s, 1)) \o Lower(Rest(s))

RECURSIVE LStripOf(_, _)
LStripOf(s, chars) ==
    IF s # "" /\ IndexIn(Ch(s, 1), chars) > 0 THEN LStripOf(Rest(s), chars) ELSE s

RECURSIVE RStripOf(_, _)
RStripOf(s, chars) ==
    IF s # "" /\ IndexIn(Ch(s, Len(s)), chars) > 0
    THEN RStripOf(SubSeq(s, 1, Len(s) - 1), chars)
    ELSE s

SpaceChars == " \t"

\* str.strip()
Strip(s) == RStripOf(LStripOf(s, SpaceChars), SpaceChars)

\* str.strip("-")
StripHyphens(s) == RStripOf(LStripOf(s, "-"), "-")

\* str.replace(a, b) for single characters
RECURSIVE ReplaceCh(_, _, _)
ReplaceCh(s, a, b) ==
    IF s = "" THEN ""
    ELSE (IF Ch(s, 1) = a THEN b ELSE Ch(s, 1)) \o ReplaceCh(Rest(s), a, b)

\* the `in` operator on strings: k occurs in t as a substring
Contains(t, k) ==
    \E i \in 1..(Len(t) - Len(k) + 1) : SubSeq(t, i, i + Len(k) - 1) = k

StartsWith(s, p) == Len(s) >= Len(p) /\ SubSeq(s, 1, Len(p)) = p

-----------------------------------------------------------------------------
(* knowledge.slug                                                          *)

\* the class [a-z0-9]
IsSlugCh(c) == IsLower(c) \/ IsDigit(c)

\* s without its leading characters outside [a-z0-9]
RECURSIVE SkipNonAlnum(_)
SkipNonAlnum(s) ==
    IF s # "" /\ ~IsSlugCh(Ch(s, 1)) THEN SkipNonAlnum(Rest(s)) ELSE s

\* re.sub(r"[^a-z0-9]+", "-", s): every maximal run of other characters
\* becomes one hyphen
RECURSIVE SubNonAlnum(_)
SubNonAlnum(s) ==
    IF s = "" THEN ""
    ELSE IF IsSlugCh(Ch(s, 1)) THEN Ch(s, 1) \o SubNonAlnum(Rest(s))
    ELSE "-" \o SubNonAlnum(SkipNonAlnum(s))

\* re.sub(r"-{2,}", "-", s)
RECURSIVE CollapseHyphens(_)
CollapseHyphens(s) ==
    IF s = "" THEN ""
    ELSE IF Ch(s, 1) = "-" THEN "-" \o CollapseHyphens(LStripOf(s, "-"))
    ELSE Ch(s, 1) \o CollapseHyphens(Rest(s))

\* a slug that keeps leading and trailing hyphens (strip("-") left out)
SlugNoStrip(s) == CollapseHyphens(SubNonAlnum(Lower(Strip(s))))

slug(s) == CollapseHyphens(StripHyphens(SubNonAlnum(Lower(Strip(s)))))

-----------------------------------------------------------------------------
(* study_agent.route                                                       *)

\* any(k in t for k in keys)
AnyIn(t, keys) == \E i \in 1..Len(keys) : Contains(t, keys[i])

\* route with the java and python tests exchanged
RoutePythonFirst(topic) ==
    LET t == Lower(topic) IN
    IF AnyIn(t, <<"react", "ag grid", "frontend", "tsx", "typescript">>)
    THEN <<"swe", "frontend", "typescript">>
    ELSE IF AnyIn(t, <<"git", "docker", "kubernetes", "ci/cd", "ci-cd", "shell",
                       "zsh", "brew", "homebrew">>)
    THEN <<"swe", "devops", "bash">>
    ELSE IF AnyIn(t, <<"django", "python">>)
    THEN <<"swe", "backend", "python">>
    ELSE IF AnyIn(t, <<"java", "spring">>)
    THEN <<"swe", "backend", "java">>
    ELSE IF AnyIn(t, <<"langchain", "agent", "crewai">>)
    THEN <<"ai", "agents", "python">>
    ELSE IF AnyIn(t, <<"rag", "prompt", "fine-tuning", "evals", "transformer",
                       "embedding">>)
    THEN <<"ai", "llms", "python">>
    ELSE IF AnyIn(t, <<"sklearn", "regression", "clustering", "pytorch",
                       "tensorflow">>)
    THEN <<"ml", "frameworks", "python">>
    ELSE <<"swe", "misc", "python">>

route(topic) ==
    LET t == Lower(topic) IN
    IF AnyIn(t, <<"react", "ag grid", "frontend", "tsx", "typescript">>)
    THEN <<"swe", "frontend", "typescript">>
    ELSE IF AnyIn(t, <<"git", "docker", "kubernetes", "ci/cd", "ci-cd", "shell",
                       "zsh", "brew", "homebrew">>)
    THEN <<"swe", "devops", "bash">>
    ELSE IF AnyIn(t, <<"java", "spring">>)
    THEN <<"swe", "backend", "java">>
    ELSE IF AnyIn(t, <<"django", "python">>)
    THEN <<"swe", "backend", "python">>
    ELSE IF AnyIn(t, <<"langchain", "agent", "crewai">>)
    THEN <<"ai", "agents", "python">>
    ELSE IF AnyIn(t, <<"rag", "prompt", "fine-tuning", "evals", "transformer",
                       "embedding">>)
    THEN <<"ai", "llms", "python">>
    ELSE IF AnyIn(t, <<"sklearn", "regression", "clustering", "pytorch",
                       "tensorflow">>)
    THEN <<"ml", "frameworks", "python">>
    ELSE <<"swe", "misc", "python">>

-----------------------------------------------------------------------------
(* study_agent.parse_yearly_journal                                        *)
(*                                                                         *)
(* The journal text is the lines of `journal` joined by newlines, with a   *)
(* newline after the last line when finalNewline holds.  The regular       *)
(* expressions are followed line by line.  No line of JournalLines is a    *)
(* bare "##" or starts with a date, so a heading never spans two lines     *)
(* (\s* of DATE_H also matches newlines).                                  *)

\* datetime.now().strftime("%Y-%m-%d") on day c
DateStr(c) == "2025-06-0" \o Ch(DigitChars, c + 2)

\* no --date argument
NoDate == ""

AllSpace(s) == \A i \in 1..Len(s) : IsSpace(Ch(s, i))

\* \d{4}-\d{2}-\d{2}
IsDate(s) ==
    /\ Len(s) = 10
    /\ \A i \in {1, 2, 3, 4, 6, 7, 9, 10} : IsDigit(Ch(s, i))
    /\ Ch(s, 5) = "-"
    /\ Ch(s, 8) = "-"

\* the line matches ^##\s*(\d{4}-\d{2}-\d{2})\s*$
IsDateHeading(line) ==
    /\ StartsWith(line, "##")
    /\ LET r == LStripOf(SubSeq(line, 3, Len(line)), SpaceChars) IN
       /\ Len(r) >= 10
       /\ IsDate(SubSeq(r, 1, 10))
       /\ AllSpace(SubSeq(r, 11, Len(r)))

\* group(1) of DATE_H
HeadingDate(line) == SubSeq(LStripOf(SubSeq(line, 3, Len(line)), SpaceChars), 1, 10)

\* line i of the text is followed by a newline
HasNewline(lines, nl, i) == i < Len(lines) \/ (i = Len(lines) /\ nl)

\* \s* followed by \n, from line i on: the whitespace-only lines that end in a
\* newline are consumed; the index of the first line that is left
RECURSIVE SkipBlank(_, _, _)
SkipBlank(lines, nl, i) ==
    IF i <= Len(lines) /\ AllSpace(lines[i]) /\ HasNewline(lines, nl, i)
    THEN SkipBlank(lines, nl, i + 1)
    ELSE i

\* a BLOCK that runs to the end of the text (the lookahead left out)
BlockEndAtEof(lines, i) == Len(lines) + 1

\* BLOCK with DOTALL, from line i on: the index of the first line at which the
\* lookahead ^##\s*\d{4}-\d{2}-\d{2}\s*$ succeeds, or one past the last line
RECURSIVE BlockEnd(_, _)
BlockEnd(lines, i) ==
    IF i <= Len(lines) /\ ~IsDateHeading(lines[i]) THEN BlockEnd(lines, i + 1) ELSE i

NoSection == [found |-> FALSE, lines |-> <<>>, nl |-> FALSE]

\* group(2) of the match of sec_re that starts at heading line i
SectionAt(lines, nl, i) ==
    LET from == SkipBlank(lines, nl, i + 1)
        to == BlockEnd(lines, from)
    IN [found |-> TRUE,
        lines |-> SubSeq(lines, from, to - 1),
        nl |-> to <= Len(lines) \/ nl,
        next |-> to]

\* the loop over sec_re.finditer(text) with a break at the first section whose
\* date satisfies pick: matches do not overlap, the scan resumes where a match ended
RECURSIVE FindSection(_, _, _, _)
FindSection(lines, nl, i, target) ==
    IF i > Len(lines) THEN NoSection
    ELSE IF IsDateHeading(lines[i]) /\ HasNewline(lines, nl, i)
    THEN LET m == SectionAt(lines, nl, i) IN
         IF HeadingDate(lines[i]) = target
         THEN [found |-> TRUE, lines |-> m.lines, nl |-> m.nl]
         ELSE FindSection(lines, nl, m.next, target)
    ELSE FindSection(lines, nl, i + 1, target)

\* the section is the empty string (`not section`)
EmptyText(sec) == sec.lines = <<>> \/ (sec.lines = <<"">> /\ ~sec.nl)

\* the line matches ^{heading}:\s*$ under re.IGNORECASE
IsListHeading(line, heading) ==
    /\ Len(line) >= Len(heading) + 1
    /\ Lower(SubSeq(line, 1, Len(heading) + 1)) = Lower(heading \o ":")
    /\ AllSpace(SubSeq(line, Len(heading) + 2, Len(line)))

\* re.findall(r"^\s*-\s*(.+?)\s*$", line) followed by the strip() filter
BulletsOf(line) ==
    LET r == LStripOf(line, SpaceChars) IN
    IF StartsWith(r, "-") /\ Strip(Rest(r)) # "" THEN <<Strip(Rest(r))>> ELSE <<>>

\* index of the first line of the section that rx matches, 0 when none
ListHeadingAt(sec, heading) ==
    LET hits == {k \in 1..Len(sec.lines) :
                    IsListHeading(sec.lines[k], heading) /\ HasNewline(sec.lines, sec.nl, k)}
    IN IF hits = {} THEN 0 ELSE CHOOSE k \in hits : \A j \in hits : k <= j

\* parse_list: rx has no DOTALL, so BLOCK stops at the end of the first line
\* that follows the heading (and the whitespace-only lines \s* consumed)
parse_list(sec, heading) ==
    LET k == ListHeadingAt(sec, heading) IN
    IF k = 0 THEN <<>>
    ELSE LET j == SkipBlank(sec.lines, sec.nl, k + 1) IN
         IF j > Len(sec.lines) THEN <<>> ELSE BulletsOf(sec.lines[j])

\* the date the call works with
EffectiveDate(target, day) == IF target = NoDate THEN DateStr(day) ELSE target

parse_yearly_journal(lines, nl, target, day) ==
    LET d == EffectiveDate(target, day)
        sec == FindSection(lines, nl, 1, d)
    IN IF ~sec.found \/ EmptyText(sec)
       THEN [date |-> d, topics |-> <<>>, notes |-> <<>>]
       ELSE [date |-> d, topics |-> parse_list(sec, "Topics"),
             notes |-> parse_list(sec, "Notes")]

-----------------------------------------------------------------------------
(* The filesystem, and knowledge.py                                        *)
(*                                                                         *)
(* A filesystem is a record [dirs, files]: the set of directory paths and  *)
(* a function from file paths to contents.  In the names used here no      *)
(* directory name is the name of a file (.gitkeep, INDEX.md, README.md,    *)
(* main.<ext>) in the same place, so mkdir and write_text never fail.      *)

CATEGORIES ==
    { <<"swe", "frontend", {"react", "typescript", "css-tailwind"}>>,
      <<"swe", "backend", {"java-spring", "python-django", "node-express"}>>,
      <<"swe", "languages", {"javascript", "python", "java", "rust"}>>,
      <<"swe", "devops", {"git", "ci-cd", "docker-k8s", "cloud-aws", "shell"}>>,
      <<"swe", "security", {"web-security", "authentication", "cryptography"}>>,
      <<"swe", "misc", {}>>,
      <<"ml", "fundamentals", {"linear-regression", "decision-trees", "clustering"}>>,
      <<"ml", "data-engineering", {"preprocessing", "feature-engineering", "pipelines"}>>,
      <<"ml", "mlops", {"model-training", "model-deployment", "monitoring"}>>,
      <<"ml", "frameworks", {"sklearn", "tensorflow", "pytorch"}>>,
      <<"ml", "misc", {}>>,
      <<"ai", "llms", {"prompting", "fine-tuning", "evals", "safety-redteaming"}>>,
      <<"ai", "nlp-classic", {"embeddings", "transformers", "seq2seq"}>>,
      <<"ai", "agents", {"langchain", "crewai", "orchestration"}>>,
      <<"ai", "applications", {"chatbots", "search", "retrieval-augmented-gen"}>>,
      <<"ai", "misc", {}>> }

\* the default of the global ROOT
DefaultRoot == "knowledge"

EmptyFS == [dirs |-> {}, files |-> << >>]

Exists(fs, p) == p \in fs.dirs \/ p \in DOMAIN fs.files

IsDir(fs, p) == p \in fs.dirs

\* pathlib's p / name: joining the empty string leaves the path as it is
Join(p, name) == IF name = "" THEN p ELSE Append(p, name)

Prefixes(p) == {SubSeq(p, 1, n) : n \in 1..Len(p)}

\* Path.mkdir(parents=True, exist_ok=True)
MkdirP(fs, p) == [fs EXCEPT !.dirs = @ \cup Prefixes(p)]

\* Path.touch() on each path of ps: a missing file is created empty, an
\* existing one keeps its content
Touch(fs, ps) ==
    [fs EXCEPT !.files = [q \in DOMAIN fs.files \cup ps |->
                            IF q \in DOMAIN fs.files THEN fs.files[q] ELSE ""]]

\* Path.write_text(text): the file is created or replaced
WriteText(fs, p, text) ==
    [fs EXCEPT !.files = [q \in DOMAIN fs.files \cup {p} |->
                            IF q = p THEN text ELSE fs.files[q]]]

ensure_tree(fs, root) ==
    LET groupDirs == {<<root, c[1], c[2]>> : c \in CATEGORIES}
        topicDirs == UNION {{<<root, c[1], c[2], t>> : t \in c[3]} : c \in CATEGORIES}
        made == [fs EXCEPT !.dirs = @ \cup UNION {Prefixes(d) : d \in groupDirs \cup topicDirs}]
    IN Touch(made, {Append(d, ".gitkeep") : d \in groupDirs \cup topicDirs}
                    \cup {<<root, "INDEX.md">>})

\* the README stub of add_topic (after textwrap.dedent); the three "..." stand
\* for the template's ellipsis character
ReadmeText(topic, area, group, date) ==
    "# " \o topic \o "\n\n**Area:** " \o area \o " / **Group:** " \o group
    \o "  \n**Created:** " \o date
    \o "\n\n## Difficulty\n(easy|medium|hard)\n\n## Why this matters\n(short note)"
    \o "\n\n## Key concepts\n- ...\n\n## Pitfalls\n- ...\n\n## Further reading\n- ...\n\n"

ExtOf(lang) ==
    CASE lang = "python" -> "py"
      [] lang = "typescript" -> "ts"
      [] lang = "javascript" -> "js"
      [] lang = "bash" -> "sh"
      [] OTHER -> "txt"

CodeOf(lang) ==
    CASE lang = "python" -> "print(\"hello from example\")\n"
      [] lang = "javascript" -> "console.log(\"hello from example\")\n"
      [] lang = "typescript" -> "console.log(\"hello from example\")\n"
      [] lang = "bash" -> "echo \"hello from example\"\n"
      [] OTHER -> "Example placeholder.\n"

\* dest of add_topic
DestOf(root, area, group, topic) ==
    Join(<<root, Lower(area), Lower(group)>>, slug(topic))

\* write_text with no existence test before it
WriteAlways(fs, p, text) == WriteText(fs, p, text)

\* `if not p.exists(): p.write_text(text)`
WriteIfAbsent(fs, p, text) == IF ~Exists(fs, p) THEN WriteText(fs, p, text) ELSE fs

add_topic(fs, root, area, group, topic, lang, day) ==
    LET dest == DestOf(root, area, group, topic)
        f1 == MkdirP(fs, dest)
        f2 == [f1 EXCEPT !.dirs = @ \cup {Append(dest, "examples")}]
        f3 == Touch(f2, {Append(dest, ".gitkeep")})
        f4 == WriteIfAbsent(f3, Append(dest, "README.md"),
                            ReadmeText(topic, Lower(area), Lower(group), DateStr(day)))
    IN WriteIfAbsent(f4, dest \o <<"examples", "main." \o ExtOf(lang)>>, CodeOf(lang))

\* knowledge.py bootstrap --root <root>
CmdBootstrap(fs, root) == ensure_tree(fs, root)

\* knowledge.py add <area> <group> <topic> --lang <lang>: the command has no
\* --root option, ROOT keeps its default
CmdAdd(fs, area, group, topic, lang, day) ==
    add_topic(ensure_tree(fs, DefaultRoot), DefaultRoot, area, group, topic, lang, day)

-----------------------------------------------------------------------------
(* build_index.py                                                          *)

\* the characters of the names used, in code point order
CodePoints ==
    " !-./0123456789ABCDEFGHIJKLMNOPQRSTUVWXYZ_abcdefghijklmnopqrstuvwxyz"

\* a < b as Python compares strings
RECURSIVE StrLess(_, _)
StrLess(a, b) ==
    IF b = "" THEN FALSE
    ELSE IF a = "" THEN TRUE
    ELSE IF Ch(a, 1) = Ch(b, 1) THEN StrLess(Rest(a), Rest(b))
    ELSE IndexIn(Ch(a, 1), CodePoints) < IndexIn(Ch(b, 1), CodePoints)

\* sorted(names)
RECURSIVE Sorted(_)
Sorted(names) ==
    IF names = {} THEN <<>>
    ELSE LET m == CHOOSE x \in names : \A y \in names : ~StrLess(y, x)
         IN <<m>> \o Sorted(names \ {m})

\* the names Path.iterdir() yields for directory p
ChildNames(fs, p) ==
    {q[Len(p) + 1] : q \in {r \in fs.dirs \cup DOMAIN fs.files :
                               Len(r) = Len(p) + 1 /\ SubSeq(r, 1, Len(p)) = p}}

\* the skip test without its test on the leading dot
SkippedKeepHidden(fs, p) == ~IsDir(fs, p)

\* `not d.is_dir() or d.name.startswith(".")`
Skipped(fs, p) == ~IsDir(fs, p) \/ StartsWith(p[Len(p)], ".")

\* "\n".join(lines)
RECURSIVE JoinLines(_)
JoinLines(lines) ==
    IF lines = <<>> THEN ""
    ELSE IF Len(lines) = 1 THEN lines[1]
    ELSE lines[1] \o "\n" \o JoinLines(Tail(lines))

\* the first line of the index; the source has an emoji after "# "
IndexTitle == "# Knowledge Index\n"

LinkLine(area, group, topic) ==
    "  - [" \o Capitalize(ReplaceCh(topic, "-", " ")) \o "]("
    \o area \o "/" \o group \o "/" \o topic \o "/README.md)"

\* the innermost loop, over the sorted names ts of the entries of a group
RECURSIVE TopicLines(_, _, _, _, _)
TopicLines(fs, root, area, group, ts) ==
    IF ts = <<>> THEN <<>>
    ELSE LET dir == <<root, area, group, Head(ts)>>
             here == IF Skipped(fs, dir) THEN <<>>
                     ELSE IF Exists(fs, Append(dir, "README.md"))
                     THEN <<LinkLine(area, group, Head(ts))>>
                     ELSE <<>>
         IN here \o TopicLines(fs, root, area, group, Tail(ts))

\* the loop over the sorted names gs of the entries of an area
RECURSIVE GroupLines(_, _, _, _)
GroupLines(fs, root, area, gs) ==
    IF gs = <<>> THEN <<>>
    ELSE LET dir == <<root, area, Head(gs)>>
             here == IF Skipped(fs, dir) THEN <<>>
                     ELSE <<"- " \o Capitalize(Head(gs))>>
                          \o TopicLines(fs, root, area, Head(gs),
                                        Sorted(ChildNames(fs, dir)))
         IN here \o GroupLines(fs, root, area, Tail(gs))

\* the outer loop, over the sorted names as of the entries of the root
RECURSIVE AreaLines(_, _, _)
AreaLines(fs, root, as) ==
    IF as = <<>> THEN <<>>
    ELSE LET dir == <<root, Head(as)>>
             here == IF Skipped(fs, dir) THEN <<>>
                     ELSE <<"## " \o Upper(Head(as))>>
                          \o GroupLines(fs, root, Head(as), Sorted(ChildNames(fs, dir)))
                          \o <<"">>
         IN here \o AreaLines(fs, root, Tail(as))

\* build_index: ROOT.iterdir() raises when the root is no directory and nothing
\* is written; otherwise INDEX.md is replaced
build_index(fs, root) ==
    IF ~IsDir(fs, <<root>>) THEN fs
    ELSE WriteText(fs, <<root, "INDEX.md">>,
                   JoinLines(<<IndexTitle>>
                             \o AreaLines(fs, root, Sorted(ChildNames(fs, <<root>>)))))

-----------------------------------------------------------------------------
(* Inputs                                                                  *)

\* the strings of length at most n over the characters of alphabet
RECURSIVE StringsUpTo(_, _)
StringsUpTo(alphabet, n) ==
    IF n = 0 THEN {""}
    ELSE LET shorter == StringsUpTo(alphabet, n - 1) IN
         shorter \cup {s \o Ch(alphabet, i) : s \in shorter, i \in 1..Len(alphabet)}

\* the characters slug is tried on: a letter of each case, a digit, a hyphen,
\* whitespace and punctuation
SlugAlphabet == "aB1- !"

\* the pieces topic texts are built from; some keywords only arise across two
\* pieces ("digi" "tal" holds "git", "sto" "rage" holds "rag")
Fragments ==
    {"React", "Docker", "Java", "python", "Agent", "prompt", "sklearn", "notes",
     "digi", "tal", " ", "script", "sto", "rage"}

RECURSIVE TextsUpTo(_)
TextsUpTo(n) ==
    IF n = 0 THEN {""}
    ELSE LET shorter == TextsUpTo(n - 1) IN
         shorter \cup {s \o f : s \in shorter, f \in Fragments}

\* the lines journal documents are built from: two date headings (the second
\* written without a space and with a trailing one), the two list headings
\* (the second in lower case with a trailing space), two bullets (the second
\* indented and padded) and the empty line
JournalLines ==
    {"## 2025-06-01", "##2025-06-02 ", "Topics:", "notes: ",
     "- rust basics", "  -  Docker networking ", ""}

Documents == UNION {[1..n -> JournalLines] : n \in 0..MaxLines}

\* the values of --date: none, the date of the first heading, a date of no heading
TargetDates == {NoDate, "2025-06-01", "2099-01-01"}

Roots == {DefaultRoot, "kb"}
AddAreas == {"swe"}
AddGroups == {"misc", "Notes"}
AddTopics == {"Rust Basics", "rust-basics", "!!!"}
AddLangs == {"python", "cobol"}

-----------------------------------------------------------------------------
(* Components that take no part in a specification stay in these states    *)

IdleSlug == slugArg = "" /\ slugRet = "" /\ slugRet2 = "" /\ slugPc = "off"
IdleRoute == routeArg = "" /\ routeRet = <<>> /\ routePc = "off"
NoData == [date |-> "", topics |-> <<>>, notes |-> <<>>]
IdleParse ==
    /\ journal = <<>> /\ finalNewline = FALSE /\ targetDate = NoDate
    /\ parsed = NoData /\ parsePc = "off"
NoCmd == [argv |-> <<>>, times |-> 0]
IdleFS == disk = EmptyFS /\ clock = 0 /\ ops = 0 /\ lastCmd = NoCmd
IdleRun ==
    /\ pc = "off" /\ journalExists = FALSE /\ data = NoData /\ done = 0
    /\ calls = <<>> /\ exitCode = -1 /\ reported = <<>>

-----------------------------------------------------------------------------
(* slug on its own: one call, then a call on the result                    *)

InitSlug ==
    /\ slugArg \in StringsUpTo(SlugAlphabet, MaxSlugLen)
    /\ slugRet = "" /\ slugRet2 = "" /\ slugPc = "init"
    /\ IdleRoute /\ IdleParse /\ IdleFS /\ IdleRun

SlugCall ==
    /\ slugPc = "init"
    /\ slugRet' = slug(slugArg)
    /\ slugPc' = "once"
    /\ UNCHANGED << slugArg, slugRet2, routeVars, parseVars, fsVars, runVars >>

SlugAgain ==
    /\ slugPc = "once"
    /\ slugRet2' = slug(slugRet)
    /\ slugPc' = "twice"
    /\ UNCHANGED << slugArg, slugRet, routeVars, parseVars, fsVars, runVars >>

NextSlug == SlugCall \/ SlugAgain

SpecSlug == InitSlug /\ [][NextSlug]_vars

-----------------------------------------------------------------------------
(* route on its own                                                        *)

InitRoute ==
    /\ routeArg \in TextsUpTo(MaxFrags)
    /\ routeRet = <<>> /\ routePc = "init"
    /\ IdleSlug /\ IdleParse /\ IdleFS /\ IdleRun

RouteCall ==
    /\ routePc = "init"
    /\ routeRet' = route(routeArg)
    /\ routePc' = "done"
    /\ UNCHANGED << routeArg, slugVars, parseVars, fsVars, runVars >>

NextRoute == RouteCall

SpecRoute == InitRoute /\ [][NextRoute]_vars

-----------------------------------------------------------------------------
(* parse_yearly_journal on its own; today is 2025-06-02                    *)

InitParse ==
    /\ journal \in Documents
    /\ finalNewline \in (IF journal = <<>> THEN {FALSE} ELSE BOOLEAN)
    /\ targetDate \in TargetDates
    /\ parsed = NoData /\ parsePc = "init"
    /\ disk = EmptyFS /\ clock = 1 /\ ops = 0 /\ lastCmd = NoCmd
    /\ IdleSlug /\ IdleRoute /\ IdleRun

ParseCall ==
    /\ parsePc = "init"
    /\ parsed' = parse_yearly_journal(journal, finalNewline, targetDate, clock)
    /\ parsePc' = "done"
    /\ UNCHANGED << journal, finalNewline, targetDate, slugVars, routeVars, fsVars, runVars >>

NextParse == ParseCall

SpecParse == InitParse /\ [][NextParse]_vars

-----------------------------------------------------------------------------
(* The knowledge.py and build_index.py commands, run one after the other   *)

\* lastCmd after the command argv: times counts its consecutive runs
Ran(argv) ==
    [argv |-> argv, times |-> IF lastCmd.argv = argv THEN lastCmd.times + 1 ELSE 1]

Bootstrap(root) ==
    /\ ops < MaxOps
    /\ disk' = CmdBootstrap(disk, root)
    /\ lastCmd' = Ran(<<"bootstrap", root>>)
    /\ ops' = ops + 1
    /\ UNCHANGED << clock, slugVars, routeVars, parseVars, runVars >>

Add(area, group, topic, lang) ==
    /\ ops < MaxOps
    /\ disk' = CmdAdd(disk, area, group, topic, lang, clock)
    /\ lastCmd' = Ran(<<"add", area, group, topic, lang>>)
    /\ ops' = ops + 1
    /\ UNCHANGED << clock, slugVars, routeVars, parseVars, runVars >>

BuildIndex ==
    /\ ops < MaxOps
    /\ disk' = build_index(disk, DefaultRoot)
    /\ lastCmd' = Ran(<<"build_index">>)
    /\ ops' = ops + 1
    /\ UNCHANGED << clock, slugVars, routeVars, parseVars, runVars >>

\* midnight passes
Tick ==
    /\ clock < MaxDays
    /\ clock' = clock + 1
    /\ UNCHANGED << disk, ops, lastCmd, slugVars, routeVars, parseVars, runVars >>

InitFS == IdleFS /\ IdleSlug /\ IdleRoute /\ IdleParse /\ IdleRun

BootstrapAny == \E root \in Roots : Bootstrap(root)

AddAny ==
    \E area \in AddAreas, group \in AddGroups, topic \in AddTopics, lang \in AddLangs :
        Add(area, group, topic, lang)

NextFS == BootstrapAny \/ AddAny \/ Tick

SpecFS == InitFS /\ [][NextFS]_vars

-----------------------------------------------------------------------------
(* build_index.py over trees that hold more than knowledge.py makes        *)

\* what else may lie under the root: a hidden directory at each level (the
\* innermost with a README), a directory and a file named README.md in visible
\* topic directories of an area in capitals, and a plain file beside the groups
ExtraDirs ==
    { <<DefaultRoot, ".obsidian", "swe">>,
      <<DefaultRoot, "swe", ".cache", "react">>,
      <<DefaultRoot, "swe", "frontend", ".drafts">>,
      <<DefaultRoot, "Ops", "tools", "make">> }

ExtraFiles ==
    { <<DefaultRoot, ".obsidian", "swe", "README.md">>,
      <<DefaultRoot, "swe", ".cache", "react", "README.md">>,
      <<DefaultRoot, "swe", "frontend", ".drafts", "README.md">>,
      <<DefaultRoot, "Ops", "tools", "make", "README.md">>,
      <<DefaultRoot, "Ops", "todo.md">> }

\* the tree that holds the directories ds and the files under them
TreeOf(ds) ==
    LET made == UNION {Prefixes(d) : d \in ds}
        fl == {f \in ExtraFiles : SubSeq(f, 1, Len(f) - 1) \in made}
    IN [dirs |-> made, files |-> [f \in fl |-> "notes\n"]]

IndexAreas == {"swe"}
IndexGroups == {"frontend"}
IndexTopics == {"React Hooks", "!!!"}
IndexLangs == {"typescript"}

InitIndex ==
    /\ disk \in {TreeOf(ds) : ds \in SUBSET ExtraDirs}
    /\ clock = 0 /\ ops = 0 /\ lastCmd = NoCmd
    /\ IdleSlug /\ IdleRoute /\ IdleParse /\ IdleRun

AddIndexed ==
    \E area \in IndexAreas, group \in IndexGroups, topic \in IndexTopics,
       lang \in IndexLangs :
        Add(area, group, topic, lang)

NextIndex == Bootstrap(DefaultRoot) \/ AddIndexed \/ BuildIndex

SpecIndex == InitIndex /\ [][NextIndex]_vars

-----------------------------------------------------------------------------
(* A run of study_agent.py <journal> [--date <date>]                       *)
(*                                                                         *)
(* calls is the record of what the run executes outside its own process:   *)
(* <<"run", argv, rc>> for a finished subprocess.run, and for a            *)
(* knowledge.py child that got as far as its commands, the functions it    *)
(* called.  A child that fails exits before it changes the filesystem.     *)

NoTopicsMsg == "No topics found"
CommittedMsg == "committed changes"
NothingMsg == "nothing to commit"
TracebackMsg == "Traceback (most recent call last)"

\* argv of study_agent.add_topic's subprocess
AddArgv(area, group, topic, lang) ==
    <<"python", "scripts/knowledge.py", "add", area, group, topic, "--lang", lang>>

GitAddArgv == <<"git", "add", "-A">>

GitCommitArgv(date) == <<"git", "commit", "-m", "study: " \o date \o " topics">>

\* what knowledge.main calls for the add command
AddCalls(area, group, topic, lang) ==
    << <<"ensure_tree">>, <<"add_topic", area, group, topic, lang>> >>

\* the run is started with a journal path (with fewer arguments main prints
\* its usage and exits at line 72); the path names a file or nothing; today is
\* 2025-06-02 and nothing has been created under ROOT
InitRun ==
    /\ journalExists \in BOOLEAN
    /\ journal \in (IF journalExists THEN Documents ELSE {<<>>})
    /\ finalNewline \in (IF journal = <<>> THEN {FALSE} ELSE BOOLEAN)
    /\ targetDate \in {NoDate, "2025-06-01"}
    /\ parsed = NoData /\ parsePc = "off"
    /\ disk = EmptyFS /\ clock = 1 /\ ops = 0 /\ lastCmd = NoCmd
    /\ pc = "parse" /\ data = NoData /\ done = 0
    /\ calls = <<>> /\ exitCode = -1 /\ reported = <<>>
    /\ IdleSlug /\ IdleRoute

\* line 79 when the journal can be read
RunParse ==
    /\ pc = "parse" /\ journalExists
    /\ data' = parse_yearly_journal(journal, finalNewline, targetDate, clock)
    /\ pc' = "check"
    /\ UNCHANGED << journalExists, done, calls, exitCode, reported,
                    slugVars, routeVars, parseVars, fsVars >>

\* line 79 when it cannot: read_text raises FileNotFoundError, which nothing
\* catches; the interpreter prints the traceback and exits with status 1
RunParseMissing ==
    /\ pc = "parse" /\ ~journalExists
    /\ pc' = "crashed"
    /\ exitCode' = 1
    /\ reported' = Append(reported, TracebackMsg)
    /\ UNCHANGED << journalExists, data, done, calls,
                    slugVars, routeVars, parseVars, fsVars >>

\* where main goes after the test of line 80 when it goes on with no topics
AfterCheckNoStop(d) == "topics"

\* where main goes after the test of line 80
AfterCheck(d) == IF d.topics = <<>> THEN "exited" ELSE "topics"

\* lines 80-82
RunCheck ==
    /\ pc = "check"
    /\ pc' = AfterCheck(data)
    /\ IF pc' = "exited"
       THEN exitCode' = 0 /\ reported' = Append(reported, NoTopicsMsg)
       ELSE UNCHANGED << exitCode, reported >>
    /\ UNCHANGED << journalExists, data, done, calls,
                    slugVars, routeVars, parseVars, fsVars >>

\* lines 84-86 for the next topic, the child exiting with status 0
RunTopicOk ==
    /\ pc = "topics" /\ done < Len(data.topics)
    /\ LET t == data.topics[done + 1]
           r == route(t)
       IN /\ disk' = CmdAdd(disk, r[1], r[2], t, r[3], clock)
          /\ calls' = calls \o AddCalls(r[1], r[2], t, r[3])
                            \o << <<"run", AddArgv(r[1], r[2], t, r[3]), 0>> >>
    /\ done' = done + 1
    /\ UNCHANGED << pc, journalExists, data, exitCode, reported, clock, ops, lastCmd,
                    slugVars, routeVars, parseVars >>

\* lines 84-86 for the next topic, the child exiting with another status:
\* check=True raises CalledProcessError outside the try of line 89
RunTopicFail ==
    /\ pc = "topics" /\ done < Len(data.topics)
    /\ LET t == data.topics[done + 1]
           r == route(t)
       IN calls' = Append(calls, <<"run", AddArgv(r[1], r[2], t, r[3]), 2>>)
    /\ pc' = "crashed"
    /\ exitCode' = 1
    /\ reported' = Append(reported, TracebackMsg)
    /\ UNCHANGED << journalExists, data, done, slugVars, routeVars, parseVars, fsVars >>

\* line 90, git add exiting with status 0
RunGitAddOk ==
    /\ pc = "topics" /\ done = Len(data.topics)
    /\ calls' = Append(calls, <<"run", GitAddArgv, 0>>)
    /\ pc' = "commit"
    /\ UNCHANGED << journalExists, data, done, exitCode, reported,
                    slugVars, routeVars, parseVars, fsVars >>

\* line 90, git add failing: lines 93-94, and main returns
RunGitAddFail ==
    /\ pc = "topics" /\ done = Len(data.topics)
    /\ calls' = Append(calls, <<"run", GitAddArgv, 1>>)
    /\ reported' = Append(reported, NothingMsg)
    /\ pc' = "exited"
    /\ exitCode' = 0
    /\ UNCHANGED << journalExists, data, done, slugVars, routeVars, parseVars, fsVars >>

\* lines 91-92
RunCommitOk ==
    /\ pc = "commit"
    /\ calls' = Append(calls, <<"run", GitCommitArgv(data.date), 0>>)
    /\ reported' = Append(reported, CommittedMsg)
    /\ pc' = "exited"
    /\ exitCode' = 0
    /\ UNCHANGED << journalExists, data, done, slugVars, routeVars, parseVars, fsVars >>

\* line 91 failing: lines 93-94
RunCommitFail ==
    /\ pc = "commit"
    /\ calls' = Append(calls, <<"run", GitCommitArgv(data.date), 1>>)
    /\ reported' = Append(reported, NothingMsg)
    /\ pc' = "exited"
    /\ exitCode' = 0
    /\ UNCHANGED << journalExists, data, done, slugVars, routeVars, parseVars, fsVars >>

NextRun ==
    \/ RunParse \/ RunParseMissing \/ RunCheck
    \/ RunTopicOk \/ RunTopicFail
    \/ RunGitAddOk \/ RunGitAddFail
    \/ RunCommitOk \/ RunCommitFail

SpecRun == InitRun /\ [][NextRun]_vars

-----------------------------------------------------------------------------
(* Properties                                                              *)

Range(f) == {f[i] : i \in DOMAIN f}

Min(S) == CHOOSE x \in S : \A y \in S : x <= y

(* ---- the journal parser ---- *)

\* the line is a bullet: optional whitespace, a hyphen, then text
IsBullet(line) ==
    LET r == LStripOf(line, SpaceChars) IN StartsWith(r, "-") /\ Strip(Rest(r)) # ""

\* the trimmed text of a bullet line
TextOfBullet(line) == Strip(Rest(LStripOf(line, SpaceChars)))

IsBulletWithText(line, x) == IsBullet(line) /\ TextOfBullet(line) = x

\* the headings of the journal that carry the date the call works with
TargetHeadings ==
    {i \in 1..Len(journal) :
        IsDateHeading(journal[i]) /\ HeadingDate(journal[i]) = EffectiveDate(targetDate, clock)}

\* the lines of the section the claims speak of: after the first heading of
\* the date, up to the next date heading or the end of the document
ClaimedSection ==
    LET i == Min(TargetHeadings)
        j == Min({k \in (i + 1)..Len(journal) : IsDateHeading(journal[k])}
                 \cup {Len(journal) + 1})
    IN SubSeq(journal, i + 1, j - 1)

\* the bullets the sub-block `heading` of the section holds: the bullet lines
\* that follow its heading line one after the other (blank lines between the
\* heading and the first bullet are let pass)
RECURSIVE BulletRun(_, _)
BulletRun(lines, k) ==
    IF k <= Len(lines) /\ IsBullet(lines[k])
    THEN <<TextOfBullet(lines[k])>> \o BulletRun(lines, k + 1)
    ELSE <<>>

RECURSIVE PastBlank(_, _)
PastBlank(lines, k) ==
    IF k <= Len(lines) /\ AllSpace(lines[k]) THEN PastBlank(lines, k + 1) ELSE k

ClaimedBullets(lines, heading) ==
    LET hs == {k \in 1..Len(lines) : IsListHeading(lines[k], heading)} IN
    IF hs = {} THEN <<>> ELSE BulletRun(lines, PastBlank(lines, Min(hs) + 1))

\* C1: for a section whose date matches, topics are the trimmed texts of all
\* the bullet lines that follow the Topics: line, in document order, and notes
\* those of all the bullet lines that follow the Notes: line.
C1_AllBulletsReturned ==
    (parsePc = "done" /\ TargetHeadings # {}) =>
        /\ parsed.topics = ClaimedBullets(ClaimedSection, "Topics")
        /\ parsed.notes = ClaimedBullets(ClaimedSection, "Notes")

\* C4: the result is taken from the first section whose heading carries the
\* target date, a section that ends before the next date heading: every topic
\* and note returned is a bullet of that section, a bullet that directly
\* follows its Topics: line is returned, and with no heading of the date the
\* result is empty for that date.
C4_SectionOfTargetDate ==
    parsePc = "done" =>
        /\ parsed.date = EffectiveDate(targetDate, clock)
        /\ IF TargetHeadings = {}
           THEN parsed.topics = <<>> /\ parsed.notes = <<>>
           ELSE LET sec == ClaimedSection
                    hs == {k \in 1..Len(sec) : IsListHeading(sec[k], "Topics")}
                IN /\ \A x \in Range(parsed.topics) \cup Range(parsed.notes) :
                        \E k \in 1..Len(sec) : IsBulletWithText(sec[k], x)
                   /\ (hs # {} /\ Min(hs) < Len(sec) /\ IsBullet(sec[Min(hs) + 1])) =>
                        (parsed.topics # <<>>
                         /\ parsed.topics[1] = TextOfBullet(sec[Min(hs) + 1]))

\* C4 witness: the section of the target date comes after a section of another
\* date, is followed by nothing of its own date, and yields a topic.
C4_Witness ==
    /\ parsePc = "done"
    /\ parsed.topics # <<>>
    /\ TargetHeadings # {}
    /\ \E i \in 1..Len(journal) :
           /\ IsDateHeading(journal[i])
           /\ HeadingDate(journal[i]) # parsed.date
           /\ i < Min(TargetHeadings)

(* ---- the router ---- *)

\* the priority list of keyword groups, in the order of their numbers
KeywordGroups ==
    << <<"react", "ag grid", "frontend", "tsx", "typescript">>,
       <<"git", "docker", "kubernetes", "ci/cd", "ci-cd", "shell", "zsh", "brew", "homebrew">>,
       <<"java", "spring">>,
       <<"django", "python">>,
       <<"langchain", "agent", "crewai">>,
       <<"rag", "prompt", "fine-tuning", "evals", "transformer", "embedding">>,
       <<"sklearn", "regression", "clustering", "pytorch", "tensorflow">> >>

GroupTriples ==
    << <<"swe", "frontend", "typescript">>, <<"swe", "devops", "bash">>,
       <<"swe", "backend", "java">>, <<"swe", "backend", "python">>,
       <<"ai", "agents", "python">>, <<"ai", "llms", "python">>,
       <<"ml", "frameworks", "python">> >>

\* the groups that have a keyword somewhere in the lowercased text
MatchingGroups(text) ==
    {g \in 1..Len(KeywordGroups) :
        \E k \in Range(KeywordGroups[g]) : Contains(Lower(text), k)}

\* C2: route returns the triple of the lowest-numbered keyword group that has a
\* keyword in the lowercased text, wherever the keywords lie, and
\* (swe, misc, python) when no group has one.
C2_FirstMatchWins ==
    routePc = "done" =>
        routeRet = (IF MatchingGroups(routeArg) = {}
                    THEN <<"swe", "misc", "python">>
                    ELSE GroupTriples[Min(MatchingGroups(routeArg))])

\* C2 witness: a text in which "python" comes before "java" was routed to java.
C2_Witness ==
    /\ routePc = "done"
    /\ StartsWith(Lower(routeArg), "python")
    /\ Contains(Lower(routeArg), "java")
    /\ routeRet = <<"swe", "backend", "java">>

(* ---- the slug ---- *)

\* s matches ^[a-z0-9]+(-[a-z0-9]+)*$
MatchesSlugPattern(s) ==
    /\ s # ""
    /\ \A i \in 1..Len(s) : IsSlugCh(Ch(s, i)) \/ Ch(s, i) = "-"
    /\ IsSlugCh(Ch(s, 1))
    /\ IsSlugCh(Ch(s, Len(s)))
    /\ ~Contains(s, "--")

\* C7: slug(x) is empty or matches ^[a-z0-9]+(-[a-z0-9]+)*$, and
\* slug(slug(x)) = slug(x).
C7_SlugShapeAndIdempotence ==
    /\ slugPc \in {"once", "twice"} => (slugRet = "" \/ MatchesSlugPattern(slugRet))
    /\ slugPc = "twice" => slugRet2 = slugRet

\* C7 witness: an argument with capitals, punctuation and outer whitespace or
\* hyphens became a slug with an inner hyphen, and slug was applied again.
C7_Witness ==
    /\ slugPc = "twice"
    /\ Contains(slugRet, "-")
    /\ Len(slugRet) < Len(slugArg)
    /\ Lower(slugArg) # slugArg

(* ---- the materializer ---- *)

IsReadmeOrExample(p) ==
    p[Len(p)] = "README.md" \/ StartsWith(p[Len(p)], "main.")

\* C3: no path that exists is removed and no README.md or example file that
\* exists changes its content, whatever bootstrap or add is run; and an add run
\* again with the arguments of the command before it leaves the directories and
\* every file's content as they were.
C3_NothingOverwritten ==
    [][ /\ disk.dirs \subseteq disk'.dirs
        /\ DOMAIN disk.files \subseteq DOMAIN disk'.files
        /\ \A p \in DOMAIN disk.files :
              IsReadmeOrExample(p) => disk'.files[p] = disk.files[p]
        /\ (/\ lastCmd.argv # <<>>
            /\ lastCmd.argv[1] = "add"
            /\ lastCmd'.argv = lastCmd.argv
            /\ lastCmd'.times = lastCmd.times + 1) => disk' = disk ]_vars

\* C3 witness: an add was run a second time with the same arguments on a later
\* day than the one its README was written on.
C3_Witness ==
    /\ lastCmd.times >= 2
    /\ lastCmd.argv[1] = "add"
    /\ clock = 1
    /\ LET readme == Append(DestOf(DefaultRoot, lastCmd.argv[2], lastCmd.argv[3],
                                   lastCmd.argv[4]), "README.md")
       IN readme \in DOMAIN disk.files /\ Contains(disk.files[readme], DateStr(0))

\* C10: every README.md lies at <root>/<area>/<group>/<slug>/README.md with a
\* slug that is not empty, every example at
\* <root>/<area>/<group>/<slug>/examples/main.<ext>, and no README.md and no
\* examples directory lies directly in a group directory.
C10_Layout ==
    /\ \A p \in DOMAIN disk.files :
          /\ p[Len(p)] = "README.md" => Len(p) = 5
          /\ StartsWith(p[Len(p)], "main.") => (Len(p) = 6 /\ p[5] = "examples")
    /\ \A d \in disk.dirs : (Len(d) = 4 => d[4] # "examples")

(* ---- the index builder ---- *)

IndexPath == <<DefaultRoot, "INDEX.md">>

Hidden(name) == StartsWith(name, ".")

\* the entries an index of the tree must hold: per visible area directory a
\* heading (kind 1) and a closing blank line (kind 4), per visible group
\* directory in it a bullet (kind 2), per visible topic directory of the group
\* that holds a README.md a link (kind 3)
IndexEntries(dirSet, paths) ==
    LET areas == {d \in dirSet : Len(d) = 2 /\ d[1] = DefaultRoot /\ ~Hidden(d[2])}
        groups == {d \in dirSet : /\ Len(d) = 3
                                  /\ SubSeq(d, 1, 2) \in areas
                                  /\ ~Hidden(d[3])}
        topics == {d \in dirSet : /\ Len(d) = 4
                                  /\ SubSeq(d, 1, 3) \in groups
                                  /\ ~Hidden(d[4])
                                  /\ Append(d, "README.md") \in paths}
    IN {[kind |-> k, area |-> d[2], group |-> "", topic |-> ""] : d \in areas, k \in {1, 4}}
       \cup {[kind |-> 2, area |-> d[2], group |-> d[3], topic |-> ""] : d \in groups}
       \cup {[kind |-> 3, area |-> d[2], group |-> d[3], topic |-> d[4]] : d \in topics}

\* entry x stands before entry y: areas in sorted order; in an area the heading
\* first and the blank line last; groups in sorted order, each bullet followed
\* by its links in sorted order
EntryBefore(x, y) ==
    IF x.area # y.area THEN StrLess(x.area, y.area)
    ELSE IF x.kind = 1 \/ y.kind = 4 THEN x.kind # y.kind
    ELSE IF y.kind = 1 \/ x.kind = 4 THEN FALSE
    ELSE IF x.group # y.group THEN StrLess(x.group, y.group)
    ELSE IF x.kind # y.kind THEN x.kind < y.kind
    ELSE StrLess(x.topic, y.topic)

EntryLine(e) ==
    CASE e.kind = 1 -> "## " \o Upper(e.area)
      [] e.kind = 2 -> "- " \o Capitalize(e.group)
      [] e.kind = 3 -> "  - [" \o Capitalize(ReplaceCh(e.topic, "-", " ")) \o "]("
                       \o e.area \o "/" \o e.group \o "/" \o e.topic \o "/README.md)"
      [] OTHER -> ""

RECURSIVE EntryLines(_)
EntryLines(es) ==
    IF es = {} THEN <<>>
    ELSE LET first == CHOOSE x \in es : \A y \in es \ {x} : EntryBefore(x, y)
         IN <<EntryLine(first)>> \o EntryLines(es \ {first})

\* C8: a build_index over an existing root leaves every directory and every
\* file but INDEX.md as it was, and INDEX.md holds, after the title and in
\* sorted order, an uppercased heading per visible area directory, a
\* capitalized bullet per visible group directory and a link to
\* <area>/<group>/<topic>/README.md for exactly the visible topic directories
\* that hold a README.md: a text fixed by the directory tree alone.
C8_IndexIsFullRebuild ==
    [][ (/\ lastCmd'.argv = <<"build_index">>
         /\ ops' = ops + 1
         /\ IsDir(disk, <<DefaultRoot>>)) =>
            /\ disk'.dirs = disk.dirs
            /\ DOMAIN disk'.files = DOMAIN disk.files \cup {IndexPath}
            /\ \A p \in DOMAIN disk.files \ {IndexPath} : disk'.files[p] = disk.files[p]
            /\ disk'.files[IndexPath] =
                  JoinLines(<<IndexTitle>>
                            \o EntryLines(IndexEntries(disk.dirs,
                                                       disk.dirs \cup DOMAIN disk.files))) ]_vars

\* C8 witness: the index was built over a tree with a topic that has a README,
\* topics that have none, and a hidden directory that has one; it links the
\* first.
C8_Witness ==
    /\ lastCmd.argv = <<"build_index">>
    /\ IndexPath \in DOMAIN disk.files
    /\ Contains(disk.files[IndexPath], "(swe/frontend/react-hooks/README.md)")
    /\ <<DefaultRoot, "swe", "frontend", "react">> \in disk.dirs
    /\ <<DefaultRoot, "swe", "frontend", ".drafts", "README.md">> \in DOMAIN disk.files

(* ---- the run of study_agent.py ---- *)

IsRun(e) == e[1] = "run"

\* the positions in calls of the events that satisfy the test
AddTopicAt == {i \in 1..Len(calls) : calls[i][1] = "add_topic"}
EnsureTreeAt == {i \in 1..Len(calls) : calls[i][1] = "ensure_tree"}
GitAddAt == {i \in 1..Len(calls) : IsRun(calls[i]) /\ calls[i][2] = GitAddArgv}
GitCommitAt ==
    {i \in 1..Len(calls) : IsRun(calls[i]) /\ calls[i][2] = GitCommitArgv(data.date)}

\* C5: with no journal document the run ends as an empty result: no topics, no
\* notes, the nothing-to-do message, exit status 0.
C5_MissingJournalIsEmpty ==
    (~journalExists /\ pc \notin {"off", "parse"}) =>
        /\ pc = "exited"
        /\ exitCode = 0
        /\ reported = <<NoTopicsMsg>>

\* C6: a subprocess of the run that fails (the materialization of a topic,
\* git add, git commit) never ends the run as a failure.
C6_FailuresSwallowed ==
    (\E i \in 1..Len(calls) : IsRun(calls[i]) /\ calls[i][3] # 0) =>
        (pc # "crashed" /\ exitCode \in {-1, 0})

====
